---------------------------- MODULE Spec2Model ----------------------------
(***************************************************************************)
(* A model of clubhouse/api.py: the ClubhouseClient request dispatch       *)
(* (_request), the resource-verb helpers built on it (_create_item,        *)
(* _delete_item, _get_item, _list_items, _update_item), the generic verbs  *)
(* (get, post, put, delete) and the milestone methods.                     *)
(*                                                                         *)
(* Text is modelled as a sequence of one-character strings, so that the    *)
(* URL construction (strip, path join, urlparse's query, the token         *)
(* separator) is computed character by character as the code does.         *)
(* One invocation runs at a time (the client is synchronous): a call       *)
(* action runs the code up to the HTTP dispatch, Respond delivers the      *)
(* transport's response and runs the code up to the next dispatch or to    *)
(* the end of the invocation, Return hands the outcome to the caller.      *)
(***************************************************************************)
EXTENDS Integers, Sequences, FiniteSets, TLC

VARIABLES
    ignored_status_codes,  \* self.ignored_status_codes
    api_key,               \* self.api_key
    pc,                    \* "idle" | "await" (an HTTP call is in flight) | "done"
    op,                    \* the invocation in progress: name, helper, args, data
    calls,                 \* the HTTP calls dispatched by the invocation, in order
    received,              \* the responses the transport returned, in order
    log,                   \* logger.error entries written by the invocation
    items,                 \* _list_items' accumulated list
    outcome                \* what the invocation returned or raised

vars == <<ignored_status_codes, api_key, pc, op, calls, received, log, items, outcome>>

---------------------------------------------------------------------------
(* Bounds of the model *)

\* Longest sequence of path segments a caller passes.
MaxSegments == 2

\* Longest chain of pages the server serves to one list invocation.
MaxPages == 3

---------------------------------------------------------------------------
(* Text *)

ENDPOINT_HOST ==
    <<"h","t","t","p","s",":","/","/","a","p","i",".",
      "c","l","u","b","h","o","u","s","e",".","i","o">>

ENDPOINT_PATH == <<"/","a","p","i","/","v","3">>

TokenParam == <<"t","o","k","e","n","=">>

NoText == <<>>

StartsWith(s, p) ==
    /\ Len(s) >= Len(p)
    /\ SubSeq(s, 1, Len(p)) = p

EndsWith(s, p) ==
    /\ Len(s) >= Len(p)
    /\ SubSeq(s, Len(s) - Len(p) + 1, Len(s)) = p

\* The positions at which p occurs in s.
Occurrences(s, p) ==
    {i \in 1..Len(s) : i + Len(p) - 1 <= Len(s) /\ SubSeq(s, i, i + Len(p) - 1) = p}

\* The first position of character c in s, or 0.
Find(s, c) ==
    IF \E i \in 1..Len(s) : s[i] = c
    THEN CHOOSE i \in 1..Len(s) : s[i] = c /\ \A j \in 1..(i - 1) : s[j] # c
    ELSE 0

RECURSIVE LStrip(_)
LStrip(s) == IF s # <<>> /\ Head(s) = "/" THEN LStrip(Tail(s)) ELSE s

RECURSIVE RStrip(_)
RStrip(s) ==
    IF s # <<>> /\ s[Len(s)] = "/" THEN RStrip(SubSeq(s, 1, Len(s) - 1)) ELSE s

\* str.strip("/")
Strip(s) == RStrip(LStrip(s))

DigitChars == <<"0","1","2","3","4","5","6","7","8","9">>

\* str(n) of a natural number
RECURSIVE Digits(_)
Digits(n) ==
    IF n < 10 THEN <<DigitChars[n + 1]>>
    ELSE Digits(n \div 10) \o <<DigitChars[(n % 10) + 1]>>

---------------------------------------------------------------------------
(* Values passed by callers *)

\* A path segment is a string or a numeric identifier.
StrSeg(s) == [tag |-> "str", num |-> 0, str |-> s]
IntSeg(n) == [tag |-> "int", num |-> n, str |-> NoText]

\* A payload: None, or a dict {"name": <s>}.
None == [tag |-> "none", num |-> 0, str |-> NoText]
Dict(s) == [tag |-> "dict", num |-> 0, str |-> s]

\* str(s)
Str(seg) == IF seg.tag = "int" THEN Digits(seg.num) ELSE seg.str

\* json.dumps(data)
JsonDumps(data) ==
    CASE data.tag = "none" -> <<"n","u","l","l">>
      [] data.tag = "int"  -> Digits(data.num)
      [] data.tag = "str"  -> <<"\"">> \o data.str \o <<"\"">>
      [] data.tag = "dict" ->
            <<"{","\"","n","a","m","e","\"",":"," ","\"">> \o data.str \o <<"\"","}">>

Milestones == <<"m","i","l","e","s","t","o","n","e","s">>
Epics == <<"e","p","i","c","s">>


---------------------------------------------------------------------------
(* Inputs *)

MilestoneIds == {123}

\* "milestones", 123, "/api/v3/milestones", "/epics/", "stories?page=2", "top#x"
Segments ==
    { StrSeg(Milestones),
      IntSeg(123),
      StrSeg(ENDPOINT_PATH \o <<"/">> \o Milestones),
      StrSeg(<<"/">> \o Epics \o <<"/">>),
      StrSeg(<<"s","t","o","r","i","e","s","?","p","a","g","e","=","2">>),
      StrSeg(<<"t","o","p","#","x">>) }

SegmentSeqs == UNION {[1..n -> Segments] : n \in 0..MaxSegments}

Payloads == {Dict(<<"T","E","S","T">>)}

Methods == {"get", "post", "put", "delete"}

ApiKeys == {<<"k","1">>}

\* The ignored_status_codes argument of the constructor: None or a list.
IgnoredArgs ==
    {[tag |-> "none", codes |-> {}]}
        \cup {[tag |-> "list", codes |-> c] : c \in {{}, {204, 300, 404}}}

StatusCodes == {200, 204, 299, 300, 404, 500}

\* A response body, as the list of items it decodes to.
Bodies == {<<"a">>, <<"b","c">>}

\* Response.next: nothing, or the cursor of the next page
\* ("/api/v3/milestones?next=2", "milestones/p3").
Cursors ==
    { ENDPOINT_PATH \o <<"/">> \o Milestones \o <<"?","n","e","x","t","=","2">>,
      Milestones \o <<"/","p","3">> }

Responses ==
    [status_code : StatusCodes, text : Bodies, next : Cursors \cup {NoText}]

---------------------------------------------------------------------------
(* _request, up to the HTTP call *)

\* posixpath.join(path, *parts)
RECURSIVE PathJoin(_, _)
PathJoin(path, parts) ==
    IF parts = <<>> THEN path
    ELSE LET b == Head(parts)
             joined ==
                 IF b # <<>> /\ Head(b) = "/" THEN b
                 ELSE IF path = <<>> \/ path[Len(path)] = "/" THEN path \o b
                 ELSE path \o <<"/">> \o b
         IN  PathJoin(joined, Tail(parts))

\* What evaluating segments[0].startswith(ENDPOINT_PATH) raises.
StartswithRaises(segments) ==
    CASE segments = <<>>        -> "IndexError"
      [] segments[1].tag # "str"  -> "AttributeError"
      [] OTHER                  -> "none"

\* if not segments[0].startswith(ENDPOINT_PATH): segments = [ENDPOINT_PATH, *segments]
PrefixedSegments(segments) ==
    IF ~StartsWith(segments[1].str, ENDPOINT_PATH)
    THEN <<StrSeg(ENDPOINT_PATH)>> \o segments
    ELSE segments

\* url = path.join(ENDPOINT_HOST, *[str(s).strip("/") for s in segments])
JoinUrl(segments) ==
    PathJoin(ENDPOINT_HOST, [i \in 1..Len(segments) |-> Strip(Str(segments[i]))])

\* urlparse(url)[4]: the text after the first "?" of the part before the first "#".
UrlQuery(url) ==
    LET h == Find(url, "#")
        u == IF h = 0 THEN url ELSE SubSeq(url, 1, h - 1)
        q == Find(u, "?")
    IN  IF q = 0 THEN NoText ELSE SubSeq(u, q + 1, Len(u))

\* prefix = "&" if urlparse(url)[4] else "?"
Prefix(url) == IF UrlQuery(url) # NoText THEN <<"&">> ELSE <<"?">>

\* url + f"{prefix}token={self.api_key}"
TokenUrl(url, key) == url \o Prefix(url) \o TokenParam \o key

\* The arguments of requests.request(method, url, headers=headers, data=data).
HttpCall(method, data, segments, key) ==
    [ data         |-> JsonDumps(data),
      url          |-> TokenUrl(JoinUrl(PrefixedSegments(segments)), key),
      method       |-> method,
      content_type |-> "application/json" ]

---------------------------------------------------------------------------
(* _request, from the response on *)

NoOutcome == [status_code |-> 0, kind |-> "none", value |-> NoText]
Raised(exc) == [status_code |-> 0, kind |-> exc, value |-> NoText]
HTTPError(response) ==
    [status_code |-> response.status_code, kind |-> "HTTPError", value |-> response.text]
EmptyDict == [status_code |-> 0, kind |-> "dict", value |-> NoText]
ResponseObject(response) ==
    [status_code |-> response.status_code, kind |-> "response", value |-> response.text]

\* A variant that forgets the ignored status codes.
IsUnignoredError_NoIgnore(response, ignored) ==
    response.status_code > 299

\* response.status_code > 299 and response.status_code not in self.ignored_status_codes
IsUnignoredError(response, ignored) ==
    /\ response.status_code > 299
    /\ response.status_code \notin ignored

\* logger.error(f"Status code: {response.status_code}, Content: {response.text}")
LoggerError(entries, response) ==
    Append(entries, [ status_code |-> response.status_code,
                      level       |-> "error",
                      content     |-> response.text ])

\* Whether response.raise_for_status() raises: it does for 4xx and 5xx only.
RaiseForStatusRaises(response) ==
    /\ 400 <= response.status_code
    /\ response.status_code < 600

\* A variant that short-circuits a 204 only when its body is empty.
IsNoContent_EmptyBody(response) ==
    /\ response.status_code = 204
    /\ response.text = NoText

\* if response.status_code == 204
IsNoContent(response) == response.status_code = 204

\* A variant that calls raise_for_status() before logger.error: nothing is
\* logged for a response that raises.
RequestLog_RaiseFirst(entries, response, ignored) ==
    IF IsUnignoredError(response, ignored) /\ ~RaiseForStatusRaises(response)
    THEN LoggerError(entries, response)
    ELSE entries

\* The log after _request has handled the response.
RequestLog(entries, response, ignored) ==
    IF IsUnignoredError(response, ignored)
    THEN LoggerError(entries, response)
    ELSE entries

\* What _request returns or raises for the response.
RequestResult(response, ignored) ==
    IF IsUnignoredError(response, ignored) /\ RaiseForStatusRaises(response)
    THEN HTTPError(response)
    ELSE IF IsNoContent(response) THEN EmptyDict
    ELSE ResponseObject(response)

---------------------------------------------------------------------------
(* The helpers' use of _request's result *)

IsException(result) ==
    result.kind \in {"HTTPError", "AttributeError", "IndexError"}

\* result.json(): a dict has no json attribute.
ResultJson(result) ==
    CASE IsException(result)      -> result
      [] result.kind = "dict"     -> Raised("AttributeError")
      [] OTHER -> [status_code |-> result.status_code, kind |-> "json",
                   value |-> result.value]

\* A variant that keeps only the last page: items = result.json()
ItemsExtend_Replace(list, response) == response.text

\* items.extend(result.json())
ItemsExtend(list, response) == list \o response.text

\* while result.next
HasNext(response) == response.next # NoText

---------------------------------------------------------------------------
(* The client *)

NoOp == [data |-> None, name |-> "none", helper |-> "none", args |-> <<>>]

\* __init__: self.ignored_status_codes = ignored_status_codes or []
Init ==
    /\ \E a \in IgnoredArgs :
          ignored_status_codes = (IF a.tag = "none" \/ a.codes = {} THEN {} ELSE a.codes)
    /\ api_key \in ApiKeys
    /\ pc = "idle"
    /\ op = NoOp
    /\ calls = <<>>
    /\ received = <<>>
    /\ log = <<>>
    /\ items = <<>>
    /\ outcome = NoOutcome

\* _request(method, data, *segments) up to requests.request: it raises on
\* segments[0].startswith, or dispatches the HTTP call.
Dispatch(method, data, segments) ==
    LET exc == StartswithRaises(segments)
    IN  IF exc # "none"
        THEN /\ pc' = "done"
             /\ outcome' = Raised(exc)
             /\ calls' = calls
        ELSE /\ pc' = "await"
             /\ outcome' = NoOutcome
             /\ calls' = Append(calls, HttpCall(method, data, segments, api_key))

\* An invocation begins: the helper names what is done with _request's result
\* ("raw": returned as it is, "json": result.json(), "list": the pagination loop).
Invoke(helper, method, data, segments) ==
    /\ pc = "idle"
    /\ Dispatch(method, data, segments)
    /\ UNCHANGED <<ignored_status_codes, api_key, received, log, items>>

\* Python binds the first positional argument after the method to `data`:
\* self._request("get", *segments) with _request(self, method, data=None, *segments).
BoundData(segments) == IF segments = <<>> THEN None ELSE Head(segments)
BoundSegments(segments) == IF segments = <<>> THEN <<>> ELSE Tail(segments)

get(segments) ==
    /\ Invoke("raw", "get", BoundData(segments), BoundSegments(segments))
    /\ op' = [data |-> None, name |-> "get", helper |-> "raw", args |-> segments]

post(segments) ==
    /\ Invoke("raw", "post", BoundData(segments), BoundSegments(segments))
    /\ op' = [data |-> None, name |-> "post", helper |-> "raw", args |-> segments]

put(segments) ==
    /\ Invoke("raw", "put", BoundData(segments), BoundSegments(segments))
    /\ op' = [data |-> None, name |-> "put", helper |-> "raw", args |-> segments]

delete(segments) ==
    /\ Invoke("raw", "delete", BoundData(segments), BoundSegments(segments))
    /\ op' = [data |-> None, name |-> "delete", helper |-> "raw", args |-> segments]

_request(method, data, segments) ==
    /\ Invoke("raw", method, data, segments)
    /\ op' = [data |-> data, name |-> "_request", helper |-> "raw", args |-> segments]

\* The helpers are reached through the milestone methods, and take the name of
\* the method that was called.
_create_item(name, data, segments) ==
    /\ Invoke("json", "post", data, segments)
    /\ op' = [data |-> data, name |-> name, helper |-> "json", args |-> segments]

_delete_item(name, segments) ==
    /\ Invoke("raw", "delete", None, segments)
    /\ op' = [data |-> None, name |-> name, helper |-> "raw", args |-> segments]

_get_item(name, segments) ==
    /\ Invoke("json", "get", None, segments)
    /\ op' = [data |-> None, name |-> name, helper |-> "json", args |-> segments]

_list_items(name, segments) ==
    /\ Invoke("list", "get", None, segments)
    /\ op' = [data |-> None, name |-> name, helper |-> "list", args |-> segments]

_update_item(name, data, segments) ==
    /\ Invoke("json", "put", data, segments)
    /\ op' = [data |-> data, name |-> name, helper |-> "json", args |-> segments]

create_milestone(data) ==
    _create_item("create_milestone", data, <<StrSeg(Milestones)>>)

delete_milestone(id) ==
    _delete_item("delete_milestone", <<StrSeg(Milestones), IntSeg(id)>>)

get_milestone(id) ==
    _get_item("get_milestone", <<StrSeg(Milestones), IntSeg(id)>>)

list_milestone_epics(id) ==
    _list_items("list_milestone_epics", <<StrSeg(Milestones), IntSeg(id), StrSeg(Epics)>>)

list_milestones ==
    _list_items("list_milestones", <<StrSeg(Milestones)>>)

update_milestone(id, data) ==
    _update_item("update_milestone", data, <<StrSeg(Milestones), IntSeg(id)>>)

\* The transport returns `response` for the call in flight, and the code runs on:
\* _request classifies it, then the helper decodes, and _list_items either
\* follows the cursor with another _request or returns its list.
\* The server's chain of pages is finite: it serves at most MaxPages pages.
\* Only _list_items reads response.next, so the other invocations are given
\* responses without one.
Respond(response) ==
    /\ pc = "await"
    /\ HasNext(response) => op.helper = "list" /\ Len(received) + 1 < MaxPages
    /\ received' = Append(received, response)
    /\ log' = RequestLog(log, response, ignored_status_codes)
    /\ LET result == RequestResult(response, ignored_status_codes)
       IN  CASE op.helper = "raw" ->
                  /\ pc' = "done"
                  /\ outcome' = result
                  /\ UNCHANGED <<calls, items>>
             [] op.helper = "json" ->
                  /\ pc' = "done"
                  /\ outcome' = ResultJson(result)
                  /\ UNCHANGED <<calls, items>>
             [] op.helper = "list" ->
                  IF ResultJson(result).kind # "json"
                  THEN /\ pc' = "done"
                       /\ outcome' = ResultJson(result)
                       /\ UNCHANGED <<calls, items>>
                  ELSE /\ items' = ItemsExtend(items, response)
                       /\ IF HasNext(response)
                          THEN Dispatch("get", None, <<StrSeg(response.next)>>)
                          ELSE /\ pc' = "done"
                               /\ outcome' = [status_code |-> 0, kind |-> "items",
                                              value |-> items']
                               /\ calls' = calls
    /\ UNCHANGED <<ignored_status_codes, api_key, op>>

\* The caller has the outcome; the client is ready for the next invocation.
Return ==
    /\ pc = "done"
    /\ pc' = "idle"
    /\ op' = NoOp
    /\ calls' = <<>>
    /\ received' = <<>>
    /\ log' = <<>>
    /\ items' = <<>>
    /\ outcome' = NoOutcome
    /\ UNCHANGED <<ignored_status_codes, api_key>>

Next ==
    \/ list_milestones
    \/ \E id \in MilestoneIds : list_milestone_epics(id)
    \/ \E id \in MilestoneIds : get_milestone(id)
    \/ \E d \in Payloads : create_milestone(d)
    \/ \E id \in MilestoneIds, d \in Payloads : update_milestone(id, d)
    \/ \E id \in MilestoneIds : delete_milestone(id)
    \/ \E m \in Methods, d \in Payloads \cup {None}, s \in SegmentSeqs : _request(m, d, s)
    \/ \E s \in SegmentSeqs : get(s)
    \/ \E s \in SegmentSeqs : post(s)
    \/ \E s \in SegmentSeqs : put(s)
    \/ \E s \in SegmentSeqs : delete(s)
    \/ \E r \in Responses : Respond(r)
    \/ Return

Spec == Init /\ [][Next]_vars

---------------------------------------------------------------------------
(* Properties *)

LastResponse == received[Len(received)]

\* A status above 299 that the client was not told to ignore.
Unignored(response) ==
    /\ response.status_code >= 300
    /\ response.status_code \notin ignored_status_codes

\* The token parameter of every dispatched URL.
Token == TokenParam \o api_key

RECURSIVE Flatten(_)
Flatten(pages) == IF pages = <<>> THEN <<>> ELSE Head(pages) \o Flatten(Tail(pages))

\* C1: every response with a status above 299 that is not ignored ends the
\* invocation with an HTTP failure carrying that status code and body; no value
\* is returned for it.
C1_UnignoredErrorFails ==
    \A i \in 1..Len(received) :
        Unignored(received[i]) =>
            /\ i = Len(received)
            /\ pc = "done"
            /\ outcome = [status_code |-> received[i].status_code,
                          kind |-> "HTTPError",
                          value |-> received[i].text]

\* C2: handling a response whose status is at most 299, or is above 299 and in
\* the ignored set, writes no error log entry and raises no HTTP failure.
C2_BenignResponseNeitherLoggedNorRaised ==
    [][ (/\ pc = "await"
         /\ Len(received') = Len(received) + 1
         /\ ~Unignored(received'[Len(received')]))
        => (log' = log /\ outcome'.kind # "HTTPError") ]_vars

C2_Witness ==
    /\ pc = "done"
    /\ op.name = "_request"
    /\ Len(received) = 1
    /\ LastResponse.status_code = 404
    /\ 404 \in ignored_status_codes
    /\ outcome.kind = "response"
    /\ log = <<>>

\* A page of a list: a response that is not classified an error and carries a body.
SuccessfulPage(response) ==
    /\ ~Unignored(response)
    /\ response.status_code # 204

\* The URL a follow-up call for `cursor` is addressed to: under the host and the
\* API prefix, the cursor without its outer slashes, then the token.
AddressedTo(url, cursor) ==
    /\ StartsWith(url, ENDPOINT_HOST \o ENDPOINT_PATH \o <<"/">>)
    /\ \E sep \in {"?", "&"} : EndsWith(url, Strip(cursor) \o <<sep>> \o Token)
    /\ Len(url) <= Len(ENDPOINT_HOST) + Len(ENDPOINT_PATH) + Len(cursor) + Len(Token) + 2

\* C3: over a chain of k successful pages of which all but the last carry a
\* cursor, the list operation ends when the page without a cursor arrives, has
\* then issued exactly k HTTP calls, each follow-up call a GET addressed to the
\* previous page's cursor, and returns the pages' items concatenated in page order.
C3_ListPagination ==
    (/\ op.helper = "list"
     /\ Len(received) >= 1
     /\ \A i \in 1..Len(received) : SuccessfulPage(received[i]))
    => LET k == Len(received)
       IN  /\ \A i \in 1..(k - 1) : received[i].next # NoText
           /\ \A i \in 2..Len(calls) :
                 /\ calls[i].method = "get"
                 /\ AddressedTo(calls[i].url, received[i - 1].next)
           /\ IF LastResponse.next = NoText
              THEN /\ pc = "done"
                   /\ Len(calls) = k
                   /\ outcome.kind = "items"
                   /\ outcome.value = Flatten([i \in 1..k |-> received[i].text])
              ELSE /\ pc = "await"
                   /\ Len(calls) = k + 1

C3_Witness ==
    /\ op.name = "list_milestones"
    /\ pc = "done"
    /\ Len(received) = 2
    /\ \A i \in 1..2 : SuccessfulPage(received[i])
    /\ Len(received[1].text) = 1
    /\ Len(received[2].text) = 2
    /\ Len(calls) = 2
    /\ outcome.kind = "items"
    /\ outcome.value = <<"a", "b", "c">>

\* C4: for every non-empty sequence of segments given to _request, a URL is
\* constructed and holds exactly one copy of the API prefix, directly after
\* the host.
C4_ExactlyOnePrefix ==
    (op.name = "_request" /\ Len(op.args) >= 1)
    => /\ Len(calls) >= 1
       /\ Occurrences(calls[1].url, ENDPOINT_PATH) = {Len(ENDPOINT_HOST) + 1}

\* Whether a URL has a query component: a "?" before any "#".
HasQueryComponent(url) ==
    LET h == Find(url, "#")
    IN  Find(IF h = 0 THEN url ELSE SubSeq(url, 1, h - 1), "?") # 0

\* C5: every dispatched URL ends with the token parameter, joined with "?" when
\* the constructed URL has no query component and with "&" when it has one,
\* and the token is a parameter of the dispatched URL's query string.
C5_TokenInQuery ==
    \A i \in 1..Len(calls) :
        LET url == calls[i].url
            base == SubSeq(url, 1, Len(url) - Len(Token) - 1)
            query == UrlQuery(url)
        IN  /\ EndsWith(url, Token)
            /\ url[Len(base) + 1] = (IF HasQueryComponent(base) THEN "&" ELSE "?")
            /\ \/ query = Token
               \/ EndsWith(query, <<"&">> \o Token)

\* C6: a 204 response makes _request return the empty mapping, whatever the
\* body and the ignored set; so do the verbs and delete_milestone, which return
\* _request's result as it is.
C6_NoContentIsEmptyMapping ==
    (/\ pc = "done"
     /\ op.helper = "raw"
     /\ Len(received) = 1
     /\ LastResponse.status_code = 204)
    => outcome = [status_code |-> 0, kind |-> "dict", value |-> <<>>]

C6_Witness ==
    /\ pc = "done"
    /\ op.name = "delete_milestone"
    /\ op.args = <<StrSeg(Milestones), IntSeg(123)>>
    /\ LastResponse.status_code = 204
    /\ LastResponse.text # NoText
    /\ outcome.kind = "dict"

\* C7: a verb called with segments s1..sn (n >= 1) dispatches one call with its
\* own method, no payload (the JSON null), and the URL of the prefix followed
\* by s1/.../sn.
C7_VerbsForwardAllSegments ==
    (op.name \in Methods /\ Len(op.args) >= 1)
    => /\ Len(calls) >= 1
       /\ calls[1].method = op.name
       /\ calls[1].data = <<"n","u","l","l">>
       /\ \E sep \in {"?", "&"} :
             calls[1].url =
                 PathJoin(ENDPOINT_HOST \o ENDPOINT_PATH,
                          [i \in 1..Len(op.args) |-> Strip(Str(op.args[i]))])
                     \o <<sep>> \o Token

\* C8: the Create, Get and Update helpers return the decoded body of every
\* response that is not classified an error, a 204 response included.
C8_JsonHelpersReturnDecodedBody ==
    (/\ pc = "done"
     /\ op.helper = "json"
     /\ Len(received) = 1
     /\ ~Unignored(LastResponse))
    => /\ outcome.kind = "json"
       /\ outcome.value = LastResponse.text

RECURSIVE UnignoredOf(_)
UnignoredOf(responses) ==
    IF responses = <<>> THEN <<>>
    ELSE (IF Unignored(Head(responses)) THEN <<Head(responses)>> ELSE <<>>)
             \o UnignoredOf(Tail(responses))

\* C9: the error log holds exactly one entry per unignored error response, in
\* order, with that response's status code and content; and an HTTP failure is
\* raised only with the entry of its response already written.
C9_LoggedOnceBeforeRaised ==
    LET errors == UnignoredOf(received)
    IN  /\ log = [i \in 1..Len(errors) |->
                     [status_code |-> errors[i].status_code,
                      level |-> "error",
                      content |-> errors[i].text]]
        /\ outcome.kind = "HTTPError" =>
              /\ log # <<>>
              /\ log[Len(log)].status_code = outcome.status_code
              /\ log[Len(log)].content = outcome.value

C9_Witness ==
    /\ pc = "done"
    /\ outcome.kind = "HTTPError"
    /\ outcome.status_code = 404
    /\ Len(received) = 2
    /\ Len(log) = 1
    /\ log[1].status_code = 404

\* C10: an unignored error status on any HTTP call ends the invocation: no
\* further call is issued (a list does not go on to the next page) and the
\* caller is not handed the list of the pages fetched so far; an invocation
\* that is not a list never issues a second call.
C10_NoCallAfterFailure ==
    /\ \A i \in 1..Len(received) :
          Unignored(received[i]) =>
              /\ pc = "done"
              /\ Len(calls) = i
              /\ outcome.kind # "items"
    /\ op.helper # "list" => Len(calls) <= 1

=============================================================================
